---- MODULE Spec2Model ----
(***************************************************************************)
(* Model of spyder_unittest.backend: TestRunner (testrunner.py) and        *)
(* NoseRunner (noserunner.py).  A runner starts test processes (QProcess), *)
(* the processes write the result file and their output, and the           *)
(* `finished` slot reads the output, parses the result file with           *)
(* `load_data` and emits `sig_finished`.                                   *)
(*                                                                         *)
(* Text is modelled as a sequence of one-character strings, so that        *)
(* formatting, joining and stripping are computed as the code computes     *)
(* them.  XML tags and exception names are atoms (TLA+ strings).           *)
(***************************************************************************)
EXTENDS Integers, Sequences, FiniteSets, TLC

\* ------------------------------------------------------------------ bounds
\* Number of start() calls (QProcess objects created) in a behaviour.
MaxProcs == 2
\* Number of output bytes the test processes write, all together.
MaxOut == 1

\* ------------------------------------------------------------- Python values
\* Python's None; no text of the model is this sequence.
None == << "None" >>

\* str(None), as '{0}'.format(None) and f'{None}' render it.
NoneText == << "N", "o", "n", "e" >>

\* '{0}'.format(v) / f'{v}' for v a str or None.
Format(v) == IF v = None THEN NoneText ELSE v

\* Truth value of a str-or-None, as `if type_` tests it.
Truthy(v) == v # None /\ v # << >>

\* -------------------------------------------------------- lxml element tree
\* element.get(key, default): the attribute, or default when it is absent.
GetDefault(element, key, default) ==
    IF key \in DOMAIN element.attrs THEN element.attrs[key] ELSE default

\* element.get(key): the attribute, or None when it is absent.
Get(element, key) == GetDefault(element, key, None)

\* ------------------------------------------------------------------ float()
\* Fraction digits a float of the model carries.
FracDigits == 2

RECURSIVE Pow10(_)
Pow10(n) == IF n = 0 THEN 1 ELSE 10 * Pow10(n - 1)

\* Floats are integers in units of 1/FloatScale.
FloatScale == Pow10(FracDigits)

Digits == << "0", "1", "2", "3", "4", "5", "6", "7", "8", "9" >>

IsDigit(c) == \E i \in 1..10 : Digits[i] = c

DigitValue(c) == (CHOOSE i \in 1..10 : Digits[i] = c) - 1

AllDigits(s) == \A i \in 1..Len(s) : IsDigit(s[i])

RECURSIVE DecimalValue(_)
\* The number a string of digits denotes.
DecimalValue(s) ==
    IF s = << >> THEN 0
    ELSE 10 * DecimalValue(SubSeq(s, 1, Len(s) - 1)) + DigitValue(s[Len(s)])

\* Position of the first "." of s, or 0.
DotAt(s) ==
    IF \E i \in 1..Len(s) : s[i] = "."
    THEN CHOOSE i \in 1..Len(s) : s[i] = "." /\ \A j \in 1..(i - 1) : s[j] # "."
    ELSE 0

\* An unsigned decimal literal: digits, at most one ".", at least one digit,
\* no more fraction digits than the model's floats carry.
IsUnsignedLiteral(s) ==
    LET d == DotAt(s) IN
    IF d = 0 THEN s # << >> /\ AllDigits(s)
    ELSE /\ AllDigits(SubSeq(s, 1, d - 1))
         /\ AllDigits(SubSeq(s, d + 1, Len(s)))
         /\ Len(s) > 1
         /\ Pow10(Len(s) - d) <= FloatScale

UnsignedValue(s) ==
    LET d == DotAt(s) IN
    IF d = 0 THEN DecimalValue(s) * FloatScale
    ELSE DecimalValue(SubSeq(s, 1, d - 1)) * FloatScale
         + DecimalValue(SubSeq(s, d + 1, Len(s))) * (FloatScale \div Pow10(Len(s) - d))

\* Float giving 0 for what is no number.
Float_default(v) ==
    IF v = None THEN [exc |-> "none", value |-> 0]
    ELSE LET signed == v # << >> /\ v[1] \in {"-", "+"}
             body == IF signed THEN Tail(v) ELSE v
         IN IF IsUnsignedLiteral(body)
            THEN [exc |-> "none",
                  value |-> IF signed /\ v[1] = "-"
                            THEN 0 - UnsignedValue(body) ELSE UnsignedValue(body)]
            ELSE [exc |-> "none", value |-> 0]

\* float(v): [exc |-> "none", value |-> the number in units of 1/FloatScale],
\* TypeError for None, ValueError for text that is no number.
Float(v) ==
    IF v = None THEN [exc |-> "TypeError", value |-> 0]
    ELSE LET signed == v # << >> /\ v[1] \in {"-", "+"}
             body == IF signed THEN Tail(v) ELSE v
         IN IF IsUnsignedLiteral(body)
            THEN [exc |-> "none",
                  value |-> IF signed /\ v[1] = "-"
                            THEN 0 - UnsignedValue(body) ELSE UnsignedValue(body)]
            ELSE [exc |-> "ValueError", value |-> 0]

\* ------------------------------------------------------------- test results
\* class Category
CategoryOK == 1
CategoryFAIL == 2
CategorySKIP == 3

STATUS_TO_CATEGORY ==
    [status \in {"ok", "failure", "error", "skipped"} |->
        CASE status = "ok" -> CategoryOK
          [] status = "failure" -> CategoryFAIL
          [] status = "error" -> CategoryFAIL
          [] status = "skipped" -> CategorySKIP]

\* namedtuple TestResult
TestResult(category, status, name, message, time, extra_text) ==
    [category |-> category, status |-> status, name |-> name,
     message |-> message, time |-> time, extra_text |-> extra_text]

\* The result file: NoFile when the path does not exist, else a record
\* [writer, doc] where doc is what etree.parse makes of the content:
\* [xml |-> FALSE] for content that is no XML, else the root's children.
NoFile == [writer |-> 0, doc |-> [xml |-> FALSE, root |-> << >>]]

\* ParseFile without the `except OSError`.
ParseFile_uncaught(f) ==
    IF f.writer = 0 THEN [exc |-> "OSError", data |-> << >>]
    ELSE IF ~f.doc.xml THEN [exc |-> "XMLSyntaxError", data |-> << >>]
    ELSE [exc |-> "none", data |-> f.doc.root]

\* etree.parse(self.resultfilename).getroot(), with `except OSError: data = []`.
ParseFile(f) ==
    IF f.writer = 0 THEN [exc |-> "none", data |-> << >>]
    ELSE IF ~f.doc.xml THEN [exc |-> "XMLSyntaxError", data |-> << >>]
    ELSE [exc |-> "none", data |-> f.doc.root]

\* '{classname}.{name}' of a testcase.
TestName(testcase) ==
    Format(Get(testcase, "classname")) \o << "." >> \o Format(Get(testcase, "name"))

\* ------------------------------------------------- TestRunner.load_data
\* The message of a test_error element (testrunner.py).
MessageA(test_error) ==
    LET type_ == Get(test_error, "type")
        message == GetDefault(test_error, "message", << >>)
    IN IF Truthy(type_) /\ Truthy(message) THEN type_ \o << ":", " " >> \o message
       ELSE IF Truthy(type_) THEN type_
       ELSE message

\* TestRunnerCase without the `or ''` after test_error.text.
TestRunnerCase_textonly(testcase) ==
    LET time == Float(Get(testcase, "time"))
        hasChild == Len(testcase.children) > 0
        test_error == testcase.children[1]
        status == IF hasChild THEN test_error.tag ELSE "ok"
        message == IF hasChild THEN MessageA(test_error) ELSE << >>
        extra_text == IF hasChild THEN test_error.text ELSE << >>
    IN IF time.exc # "none" THEN [exc |-> time.exc, value |-> << >>]
       ELSE IF status \notin DOMAIN STATUS_TO_CATEGORY
       THEN [exc |-> "KeyError", value |-> << >>]
       ELSE [exc |-> "none",
             value |-> TestResult(STATUS_TO_CATEGORY[status], status,
                                  TestName(testcase), message, time.value, extra_text)]

\* One iteration of the loop of TestRunner.load_data.
TestRunnerCase(testcase) ==
    LET time == Float(Get(testcase, "time"))
        hasChild == Len(testcase.children) > 0
        test_error == testcase.children[1]
        status == IF hasChild THEN test_error.tag ELSE "ok"
        message == IF hasChild THEN MessageA(test_error) ELSE << >>
        extra_text == IF hasChild
                      THEN (IF Truthy(test_error.text) THEN test_error.text ELSE << >>)
                      ELSE << >>
    IN IF time.exc # "none" THEN [exc |-> time.exc, value |-> << >>]
       ELSE IF status \notin DOMAIN STATUS_TO_CATEGORY
       THEN [exc |-> "KeyError", value |-> << >>]
       ELSE [exc |-> "none",
             value |-> TestResult(STATUS_TO_CATEGORY[status], status,
                                  TestName(testcase), message, time.value, extra_text)]

RECURSIVE TestRunnerLoop(_, _)
\* The loop of TestRunner.load_data over data, testresults being the list so far.
TestRunnerLoop(data, testresults) ==
    IF data = << >> THEN [exc |-> "none", value |-> testresults]
    ELSE LET r == TestRunnerCase(Head(data))
         IN IF r.exc # "none" THEN [exc |-> r.exc, value |-> << >>]
            ELSE TestRunnerLoop(Tail(data), Append(testresults, r.value))

\* TestRunner.load_data on the result file f: the list of results, or the
\* exception it raises.
TestRunner_load_data(f) ==
    LET parsed == ParseFile(f)
    IN IF parsed.exc # "none" THEN [exc |-> parsed.exc, value |-> << >>]
       ELSE TestRunnerLoop(parsed.data, << >>)

\* ------------------------------------------------- NoseRunner.load_data
\* gettext catalogue of the running locale (none installed).
Translations == [msgid \in {} |-> << >>]

\* _(msgid)
Translate(msgid) == IF msgid \in DOMAIN Translations THEN Translations[msgid] ELSE msgid

CapturedStdout == << "C", "a", "p", "t", "u", "r", "e", "d", " ", "s", "t", "d", "o", "u", "t" >>
CapturedStderr == << "C", "a", "p", "t", "u", "r", "e", "d", " ", "s", "t", "d", "e", "r", "r" >>

RECURSIVE RStripNewlines(_)
\* text.rstrip('\n')
RStripNewlines(text) ==
    IF text # << >> /\ text[Len(text)] = "\n"
    THEN RStripNewlines(SubSeq(text, 1, Len(text) - 1))
    ELSE text

RECURSIVE JoinBlank(_)
\* '\n\n'.join(extras)
JoinBlank(extras) ==
    IF extras = << >> THEN << >>
    ELSE IF Len(extras) = 1 THEN extras[1]
    ELSE extras[1] \o << "\n", "\n" >> \o JoinBlank(Tail(extras))

\* MessageB formatting with an empty message as with a message.
MessageB_keepsep(child) ==
    LET type_ == Get(child, "type")
        message == GetDefault(child, "message", << >>)
    IN IF Truthy(type_)
       THEN type_ \o << ":", " " >> \o message
       ELSE message

\* The message of an outcome child (noserunner.py).
MessageB(child) ==
    LET type_ == Get(child, "type")
        message == GetDefault(child, "message", << >>)
    IN IF Truthy(type_)
       THEN (IF Truthy(message) THEN type_ \o << ":", " " >> \o message ELSE type_)
       ELSE message

\* f'----- {heading} -----\n{contents}'
StreamBlock(heading, contents) ==
    << "-", "-", "-", "-", "-", " " >> \o heading
        \o << " ", "-", "-", "-", "-", "-", "\n" >> \o contents

\* NoseChild putting the text of the outcome child before the blocks so far.
NoseChild_outcome_first(acc, child) ==
    IF child.tag \in {"error", "failure", "skipped"}
    THEN [acc EXCEPT
            !.category = IF child.tag = "skipped" THEN CategorySKIP ELSE CategoryFAIL,
            !.status = child.tag,
            !.message = MessageB(child),
            !.extras = IF Truthy(child.text) THEN << child.text >> \o @ ELSE @]
    ELSE IF child.tag \in {"system-out", "system-err"}
    THEN IF child.text = None
         THEN [acc EXCEPT !.exc = "AttributeError"]
         ELSE [acc EXCEPT
                 !.extras = Append(@, StreamBlock(
                     IF child.tag = "system-out" THEN Translate(CapturedStdout)
                     ELSE Translate(CapturedStderr),
                     RStripNewlines(child.text)))]
    ELSE acc

\* One iteration of the loop over the children of a testcase: acc holds
\* category, status, message, extras and the exception raised so far.
NoseChild(acc, child) ==
    IF child.tag \in {"error", "failure", "skipped"}
    THEN [acc EXCEPT
            !.category = IF child.tag = "skipped" THEN CategorySKIP ELSE CategoryFAIL,
            !.status = child.tag,
            !.message = MessageB(child),
            !.extras = IF Truthy(child.text) THEN Append(@, child.text) ELSE @]
    ELSE IF child.tag \in {"system-out", "system-err"}
    THEN IF child.text = None
         THEN [acc EXCEPT !.exc = "AttributeError"]
         ELSE [acc EXCEPT
                 !.extras = Append(@, StreamBlock(
                     IF child.tag = "system-out" THEN Translate(CapturedStdout)
                     ELSE Translate(CapturedStderr),
                     RStripNewlines(child.text)))]
    ELSE acc

RECURSIVE NoseChildren(_, _)
NoseChildren(acc, children) ==
    IF children = << >> \/ acc.exc # "none" THEN acc
    ELSE NoseChildren(NoseChild(acc, Head(children)), Tail(children))

\* One iteration of the loop of NoseRunner.load_data.
NoseRunnerCase(testcase) ==
    LET time == Float(Get(testcase, "time"))
        acc == NoseChildren([category |-> CategoryOK, status |-> "ok",
                             message |-> << >>, extras |-> << >>, exc |-> "none"],
                            testcase.children)
    IN IF time.exc # "none" THEN [exc |-> time.exc, value |-> << >>]
       ELSE IF acc.exc # "none" THEN [exc |-> acc.exc, value |-> << >>]
       ELSE [exc |-> "none",
             value |-> TestResult(acc.category, acc.status, TestName(testcase),
                                  acc.message, time.value, JoinBlank(acc.extras))]

RECURSIVE NoseRunnerLoop(_, _)
NoseRunnerLoop(data, testresults) ==
    IF data = << >> THEN [exc |-> "none", value |-> testresults]
    ELSE LET r == NoseRunnerCase(Head(data))
         IN IF r.exc # "none" THEN [exc |-> r.exc, value |-> << >>]
            ELSE NoseRunnerLoop(Tail(data), Append(testresults, r.value))

\* NoseRunner.load_data on the result file f.
NoseRunner_load_data(f) ==
    LET parsed == ParseFile(f)
    IN IF parsed.exc # "none" THEN [exc |-> parsed.exc, value |-> << >>]
       ELSE NoseRunnerLoop(parsed.data, << >>)

\* ------------------------------------------------------ result files written
Element(tag, attrs, text) == [tag |-> tag, attrs |-> attrs, text |-> text]

TestCase(attrs, children) == [attrs |-> attrs, children |-> children]

Xml(root) == [xml |-> TRUE, root |-> root]

NotXml == [xml |-> FALSE, root |-> << >>]

CaseAttrs(time) == [classname |-> << "T" >>, name |-> << "t" >>, time |-> time]

DocEmpty == Xml(<< >>)
DocPass == Xml(<< TestCase(CaseAttrs(<< "0", ".", "1" >>), << >>) >>)
DocFail ==
    Xml(<< TestCase(CaseAttrs(<< "2" >>),
                    << Element("failure", [type |-> << "E" >>, message |-> << "m" >>],
                               << "b" >>) >>) >>)
DocBadTime == Xml(<< TestCase(CaseAttrs(<< "a" >>), << >>) >>)
DocStdout ==
    Xml(<< TestCase(CaseAttrs(<< "1" >>),
                    << Element("system-out", << >>, << "h", "\n" >>) >>) >>)
DocStdoutEmpty ==
    Xml(<< TestCase(CaseAttrs(<< "1" >>),
                    << Element("system-out", << >>, None) >>) >>)

\* What a test process may leave in the result file.
Docs == {DocPass, DocBadTime, DocStdoutEmpty, NotXml}

\* ------------------------------------------------------- process environment
\* os.pathsep
PathSep == << ":" >>

\* The name of the search-path variable.
PYTHONPATH == << "P", "Y", "T", "H", "O", "N", "P", "A", "T", "H" >>

RECURSIVE JoinWith(_, _)
\* sep.join(list)
JoinWith(list, sep) ==
    IF list = << >> THEN << >>
    ELSE IF Len(list) = 1 THEN list[1]
    ELSE list[1] \o sep \o JoinWith(Tail(list), sep)

\* s.startswith(prefix)
StartsWith(s, prefix) ==
    Len(s) >= Len(prefix) /\ SubSeq(s, 1, Len(prefix)) = prefix

\* add_pathlist_to_PYTHONPATH(env, pathlist): the list env of 'NAME=value'
\* items after the call.  The search-path item gets the entries of pathlist,
\* joined by os.pathsep, in front of its value; without such an item one is
\* appended.
add_pathlist_to_PYTHONPATH(env, pathlist) ==
    LET prefix == PYTHONPATH \o << "=" >>
        pathstr == JoinWith(pathlist, PathSep)
    IN IF \E i \in 1..Len(env) : StartsWith(env[i], prefix)
       THEN [i \in 1..Len(env) |->
                IF StartsWith(env[i], prefix)
                THEN prefix \o pathstr \o PathSep
                        \o SubSeq(env[i], Len(prefix) + 1, Len(env[i]))
                ELSE env[i]]
       ELSE Append(env, prefix \o pathstr)

\* envItem.partition('=') cut at the last '=' instead of the first.
Partition_last(envItem) ==
    IF \E i \in 1..Len(envItem) : envItem[i] = "="
    THEN LET at == CHOOSE i \in 1..Len(envItem) :
                      envItem[i] = "=" /\ \A j \in (i + 1)..Len(envItem) : envItem[j] # "="
         IN [envName |-> SubSeq(envItem, 1, at - 1),
             envValue |-> SubSeq(envItem, at + 1, Len(envItem))]
    ELSE [envName |-> envItem, envValue |-> << >>]

\* envName, separator, envValue = envItem.partition('=')
Partition(envItem) ==
    IF \E i \in 1..Len(envItem) : envItem[i] = "="
    THEN LET at == CHOOSE i \in 1..Len(envItem) :
                      envItem[i] = "=" /\ \A j \in 1..(i - 1) : envItem[j] # "="
         IN [envName |-> SubSeq(envItem, 1, at - 1),
             envValue |-> SubSeq(envItem, at + 1, Len(envItem))]
    ELSE [envName |-> envItem, envValue |-> << >>]

\* QProcessEnvironment(): no variable.
EmptyEnvironment == [envName \in {} |-> << >>]

\* processEnvironment.insert(envName, envValue)
Insert(processEnvironment, envName, envValue) ==
    [n \in DOMAIN processEnvironment \cup {envName} |->
        IF n = envName THEN envValue ELSE processEnvironment[n]]

RECURSIVE InsertItems(_, _)
\* The loop `for envItem in env` of start.
InsertItems(processEnvironment, env) ==
    IF env = << >> THEN processEnvironment
    ELSE LET item == Partition(Head(env))
         IN InsertItems(Insert(processEnvironment, item.envName, item.envValue),
                        Tail(env))

\* pythonpath is None: a list that holds None stands for it.
NoPythonPath == << None >>

\* Lines 117-127 of start: what the QProcess is given as its environment;
\* set is FALSE when setProcessEnvironment is not called (the child then
\* inherits the environment of the host process).
ProcessEnvironment(systemEnvironment, pythonpath) ==
    IF pythonpath = NoPythonPath THEN [set |-> FALSE, variables |-> EmptyEnvironment]
    ELSE [set |-> TRUE,
          variables |-> InsertItems(EmptyEnvironment,
                            add_pathlist_to_PYTHONPATH(systemEnvironment, pythonpath))]

\* The environment of the host process, as 'NAME=value' items.
HostItems ==
    << << "A", "=", "1" >>, PYTHONPATH \o << "=", "/", "o" >>, << "B", "=", "x", "=", "y" >>, PYTHONPATH \o << "S", "=", "z" >> >>

RECURSIVE SubLists(_)
\* The lists made of some of the items, in their order.
SubLists(items) ==
    IF items = << >> THEN {<< >>}
    ELSE LET rest == SubLists(Tail(items))
         IN rest \cup {<< Head(items) >> \o r : r \in rest}

\* The host environments considered.
Environs == SubLists(HostItems)

\* The host environment of the runs whose environment is not in question.
HostEnviron == << HostItems[1], HostItems[2] >>

\* The pythonpath arguments of the runs whose environment is not in question.
RunPythonPaths == {<< << "/", "p" >> >>}

\* The pythonpath arguments considered.
PythonPaths ==
    {NoPythonPath, << >>, << << "/", "p" >> >>, << << "/", "p" >>, << "/", "q" >> >>}

\* ------------------------------------------------------------------- state
\* The runner is a TestRunner or a NoseRunner.  NoseRunner overrides finished
\* and load_data; its start and kill_if_running are taken to be TestRunner's.
VARIABLES
    runner,      \* the class of the runner object: "TestRunner" or "NoseRunner"
    process,     \* self.process: 0 for None, else the QProcess created last
    nprocs,      \* number of QProcess objects created so far
    qstate,      \* QProcess.state() of each QProcess
    child,       \* the operating system's view of each test process
    killed,      \* whether QProcess.kill() was called on the process
    buf,         \* bytes the process wrote that were not read yet
    nout,        \* number of bytes the test processes wrote so far
    file,        \* the file at self.resultfilename
    emitted,     \* the sig_finished emissions, in order
    excepthook,  \* exceptions that left the finished slot, in order
    raised,      \* what the caller's last call of start or kill_if_running raised
    overlapped,  \* processes that ran while start() was called for another one
    environ,     \* the environment of the host process, as 'NAME=value' items
    procenv      \* the environment start gave to self.process

vars == << runner, process, nprocs, qstate, child, killed, buf, nout, file,
           emitted, excepthook, raised, overlapped, environ, procenv >>

Procs == 1..MaxProcs

Frameworks == {"nose", "py.test", "unittest"}

ExitCodes == {0, 1}

Live(p) == child[p] = "alive"

Exited(p) == child[p] = "exited"

\* self.process and self.process.state() == QProcess.Running
IsRunning == process # 0 /\ qstate[process] = "Running"

\* TestRunner.__init__, in a host process whose environment is env.
Constructed(env) ==
    /\ environ = env
    /\ procenv = [set |-> FALSE, variables |-> EmptyEnvironment]
    /\ runner \in {"TestRunner", "NoseRunner"}
    /\ process = 0
    /\ nprocs = 0
    /\ qstate = [p \in Procs |-> "NotRunning"]
    /\ child = [p \in Procs |-> "none"]
    /\ killed = [p \in Procs |-> FALSE]
    /\ buf = [p \in Procs |-> << >>]
    /\ nout = 0
    /\ file = NoFile
    /\ emitted = << >>
    /\ excepthook = << >>
    /\ raised = "none"
    /\ overlapped = {}

Init == Constructed(HostEnviron)

\* ------------------------------------------------------------ test processes
\* The byte a test process writes to its merged output channel.
ByteOf(p) == 48 + p

\* QTextCodec.codecForLocale().toUnicode: bytes to text (ASCII digits).
ToUnicode(bytes) == [i \in 1..Len(bytes) |-> Digits[bytes[i] - 47]]

\* The test process writes the result file.
ChildWrite(p, doc) ==
    /\ Live(p)
    /\ file' = [writer |-> p, doc |-> doc]
    /\ UNCHANGED << runner, process, nprocs, qstate, child, killed, buf, nout,
                    emitted, excepthook, raised, overlapped,
                    environ, procenv >>

\* The test process writes to its standard output or error.
ChildOutput(p) ==
    /\ Live(p)
    /\ nout < MaxOut
    /\ nout' = nout + 1
    /\ buf' = [buf EXCEPT ![p] = Append(@, ByteOf(p))]
    /\ UNCHANGED << runner, process, nprocs, qstate, child, killed, file,
                    emitted, excepthook, raised, overlapped,
                    environ, procenv >>

\* The test process ends, by itself or by the kill signal, with some exit code;
\* the runner never asks the QProcess for the code.
ChildExit(p, exitCode) ==
    /\ Live(p)
    /\ exitCode \in ExitCodes
    /\ child' = [child EXCEPT ![p] = "exited"]
    /\ UNCHANGED << runner, process, nprocs, qstate, killed, buf, nout, file,
                    emitted, excepthook, raised, overlapped,
                    environ, procenv >>

\* --------------------------------------------------------------- the runner
\* self.load_data() of the runner's class.
load_data(f) ==
    IF runner = "TestRunner" THEN TestRunner_load_data(f) ELSE NoseRunner_load_data(f)

\* The arguments of sig_finished.emit in the runner's class.
EmitArgs(testresults, output) ==
    IF runner = "TestRunner" THEN << testresults, output >>
    ELSE << testresults, output, TRUE >>

\* start without the os.remove of the result file.
start_keepfile(framework, pythonpath, launched) ==
    LET new == nprocs + 1 IN
    /\ nprocs < MaxProcs
    /\ procenv' = ProcessEnvironment(environ, pythonpath)
    /\ nprocs' = new
    /\ process' = new
    /\ overlapped' = IF \E q \in Procs : qstate[q] = "Running"
                     THEN overlapped \cup {q \in Procs : qstate[q] = "Running"} \cup {new}
                     ELSE overlapped
    /\ IF framework \notin {"nose", "py.test"}
       THEN /\ raised' = "ValueError"
            /\ UNCHANGED << file, qstate, child >>
       ELSE /\ file' = file
            /\ IF launched
               THEN /\ qstate' = [qstate EXCEPT ![new] = "Running"]
                    /\ child' = [child EXCEPT ![new] = "alive"]
                    /\ raised' = "none"
               ELSE /\ raised' = "RuntimeError"
                    /\ UNCHANGED << qstate, child >>
    /\ UNCHANGED << runner, killed, buf, nout, emitted, excepthook, environ >>

\* start without the check of what waitForStarted() returned.
start_noraise(framework, pythonpath, launched) ==
    LET new == nprocs + 1 IN
    /\ nprocs < MaxProcs
    /\ procenv' = ProcessEnvironment(environ, pythonpath)
    /\ nprocs' = new
    /\ process' = new
    /\ overlapped' = IF \E q \in Procs : qstate[q] = "Running"
                     THEN overlapped \cup {q \in Procs : qstate[q] = "Running"} \cup {new}
                     ELSE overlapped
    /\ IF framework \notin {"nose", "py.test"}
       THEN /\ raised' = "ValueError"
            /\ UNCHANGED << file, qstate, child >>
       ELSE /\ file' = NoFile
            /\ IF launched
               THEN /\ qstate' = [qstate EXCEPT ![new] = "Running"]
                    /\ child' = [child EXCEPT ![new] = "alive"]
                    /\ raised' = "none"
               ELSE /\ raised' = "none"
                    /\ UNCHANGED << qstate, child >>
    /\ UNCHANGED << runner, killed, buf, nout, emitted, excepthook, environ >>

\* start(config, pythonpath); launched is what waitForStarted() returns.
start(framework, pythonpath, launched) ==
    LET new == nprocs + 1 IN
    /\ nprocs < MaxProcs
    /\ procenv' = ProcessEnvironment(environ, pythonpath)
    /\ nprocs' = new
    /\ process' = new
    /\ overlapped' = IF \E q \in Procs : qstate[q] = "Running"
                     THEN overlapped \cup {q \in Procs : qstate[q] = "Running"} \cup {new}
                     ELSE overlapped
    /\ IF framework \notin {"nose", "py.test"}
       THEN /\ raised' = "ValueError"
            /\ UNCHANGED << file, qstate, child >>
       ELSE /\ file' = NoFile
            /\ IF launched
               THEN /\ qstate' = [qstate EXCEPT ![new] = "Running"]
                    /\ child' = [child EXCEPT ![new] = "alive"]
                    /\ raised' = "none"
               ELSE /\ raised' = "RuntimeError"
                    /\ UNCHANGED << qstate, child >>
    /\ UNCHANGED << runner, killed, buf, nout, emitted, excepthook, environ >>

\* finished, as it would be with a cancelled state that suppresses the emission.
finished_cancelled(p) ==
    LET output == ToUnicode(buf[process])
        testresults == load_data(file)
    IN
    /\ qstate[p] = "Running"
    /\ Exited(p)
    /\ qstate' = [qstate EXCEPT ![p] = "NotRunning"]
    /\ buf' = [buf EXCEPT ![process] = << >>]
    /\ IF killed[p] THEN UNCHANGED << emitted, excepthook >>
       ELSE IF testresults.exc = "none"
       THEN /\ emitted' = Append(emitted, [args |-> EmitArgs(testresults.value, output),
                                           sender |-> p, src |-> file.writer])
            /\ UNCHANGED excepthook
       ELSE /\ excepthook' = Append(excepthook, [sender |-> p, exc |-> testresults.exc])
            /\ UNCHANGED emitted
    /\ UNCHANGED << runner, process, nprocs, child, killed, nout, file, raised,
                    overlapped,
                    environ, procenv >>

\* The finished slot, run when QProcess p signals finished.
finished(p) ==
    LET output == ToUnicode(buf[process])
        testresults == load_data(file)
    IN
    /\ qstate[p] = "Running"
    /\ Exited(p)
    /\ qstate' = [qstate EXCEPT ![p] = "NotRunning"]
    /\ buf' = [buf EXCEPT ![process] = << >>]
    /\ IF testresults.exc = "none"
       THEN /\ emitted' = Append(emitted, [args |-> EmitArgs(testresults.value, output),
                                           sender |-> p, src |-> file.writer])
            /\ UNCHANGED excepthook
       ELSE /\ excepthook' = Append(excepthook, [sender |-> p, exc |-> testresults.exc])
            /\ UNCHANGED emitted
    /\ UNCHANGED << runner, process, nprocs, child, killed, nout, file, raised,
                    overlapped,
                    environ, procenv >>

\* kill_if_running without the test that self.process is set.
kill_if_running_unguarded ==
    /\ killed' = IF IsRunning THEN [killed EXCEPT ![process] = TRUE] ELSE killed
    /\ raised' = IF process = 0 THEN "AttributeError" ELSE "none"
    /\ UNCHANGED << runner, process, nprocs, qstate, child, buf, nout, file,
                    emitted, excepthook, overlapped,
                    environ, procenv >>

\* kill_if_running()
kill_if_running ==
    /\ killed' = IF IsRunning THEN [killed EXCEPT ![process] = TRUE] ELSE killed
    /\ raised' = "none"
    /\ UNCHANGED << runner, process, nprocs, qstate, child, buf, nout, file,
                    emitted, excepthook, overlapped,
                    environ, procenv >>

Next ==
    \/ \E framework \in Frameworks, pythonpath \in RunPythonPaths,
          launched \in BOOLEAN : start(framework, pythonpath, launched)
    \/ kill_if_running
    \/ \E p \in Procs : finished(p)
    \/ \E p \in Procs, doc \in Docs : ChildWrite(p, doc)
    \/ \E p \in Procs : ChildOutput(p)
    \/ \E p \in Procs, exitCode \in ExitCodes : ChildExit(p, exitCode)

Spec == Init /\ [][Next]_vars

\* ------------------------------------------------ start and its environment
\* The runner is constructed in any of the host environments and start is
\* called with any of the pythonpath arguments.
EnvInit == \E env \in Environs : Constructed(env)

EnvNext ==
    \E framework \in Frameworks, pythonpath \in PythonPaths, launched \in BOOLEAN :
        start(framework, pythonpath, launched)

EnvSpec == EnvInit /\ [][EnvNext]_vars

\* ------------------------------------------------------ parsing result files
\* Most children of a testcase and most testcases of a result file.
MaxChildren == 2
MaxCases == 2

\* Sequences of at most n elements of pool.
SeqsUpTo(pool, n) == UNION {[1..k -> pool] : k \in 0..n}

\* Elements a test process writes below a testcase.
Failure == Element("failure", [type |-> << "E" >>, message |-> << "m" >>], << "b" >>)
Skipped == Element("skipped", [message |-> << "m" >>], None)
SystemOut == Element("system-out", << >>, << "h", "\n" >>)
SystemErr == Element("system-err", << >>, << "e" >>)
SystemOutEmpty == Element("system-out", << >>, None)

ChildPool == {Failure, Skipped, SystemOut, SystemErr, SystemOutEmpty}

\* The attributes an outcome element has of type and message, each absent,
\* empty or not empty.
OutcomeAttrs ==
    {[k \in keys |-> IF k \notin full THEN << >>
                      ELSE IF k = "type" THEN << "E" >> ELSE << "m" >>] :
        keys \in SUBSET {"type", "message"}, full \in SUBSET {"type", "message"}}

Outcomes ==
    {Element(tag, attrs, text) :
        tag \in {"error", "failure", "skipped"}, attrs \in OutcomeAttrs,
        text \in {None, << "b" >>}}

\* Values of the time attribute; None is the attribute left out.
Times ==
    {None, << >>, << "a" >>, << "1" >>, << "0", ".", "5" >>, << "-", "1" >>,
     << ".", "5" >>, << "1", ".", "2", "3" >>}

\* The attributes of a testcase, without a time attribute when time is None.
TimedAttrs(time) ==
    IF time = None THEN [classname |-> << "T" >>, name |-> << "t" >>]
    ELSE CaseAttrs(time)

\* Testcases of files with several of them.
CasePool ==
    {TestCase([classname |-> << "T" >>, name |-> << "p" >>, time |-> << "1" >>], << >>),
     TestCase([classname |-> << "T" >>, name |-> << "f" >>, time |-> << "2" >>],
              << Failure >>),
     TestCase([classname |-> << "T" >>, name |-> << "o" >>, time |-> << "3" >>],
              << SystemOut >>)}

\* Result files the parsers are run on.
ParseDocs ==
    {Xml(<< TestCase(CaseAttrs(<< "1" >>), children) >>) :
        children \in SeqsUpTo(ChildPool, MaxChildren)}
    \cup {Xml(<< TestCase(CaseAttrs(<< "1" >>), << outcome >>) >>) : outcome \in Outcomes}
    \cup {Xml(<< TestCase(TimedAttrs(time), << >>) >>) : time \in Times}
    \cup {Xml(root) : root \in SeqsUpTo(CasePool, MaxCases)}
    \cup {DocEmpty, DocPass, DocFail, DocBadTime, DocStdout, DocStdoutEmpty, NotXml}

\* The first test process was started, wrote a result file and ended; its
\* completion event is still to be delivered.
ParseInit ==
    /\ environ = HostEnviron
    /\ procenv = ProcessEnvironment(HostEnviron, CHOOSE pythonpath \in RunPythonPaths : TRUE)
    /\ runner \in {"TestRunner", "NoseRunner"}
    /\ process = 1
    /\ nprocs = 1
    /\ qstate = [p \in Procs |-> IF p = 1 THEN "Running" ELSE "NotRunning"]
    /\ child = [p \in Procs |-> IF p = 1 THEN "exited" ELSE "none"]
    /\ killed = [p \in Procs |-> FALSE]
    /\ buf = [p \in Procs |-> << >>]
    /\ nout = 0
    /\ \E doc \in ParseDocs : file = [writer |-> 1, doc |-> doc]
    /\ emitted = << >>
    /\ excepthook = << >>
    /\ raised = "none"
    /\ overlapped = {}

ParseNext == \E p \in Procs : finished(p)

ParseSpec == ParseInit /\ [][ParseNext]_vars

\* ------------------------------------------------------- notions of the claims
\* The completion event of the process was delivered: its child ended and the
\* finished slot ran for it.
Delivered(p) == child[p] = "exited" /\ qstate[p] = "NotRunning"

\* The step is the completion event of p, the finished slot included.
FinishedStep(p) == qstate[p] = "Running" /\ qstate'[p] = "NotRunning"

\* The step is a call of start().
StartStep == nprocs' = nprocs + 1

\* No process started earlier still waits for its completion event.
Idle == \A q \in Procs : qstate[q] # "Running"

\* The emissions of sig_finished made for the completion event of p.
EmissionsOf(p) == {i \in 1..Len(emitted) : emitted[i].sender = p}

\* The step emits sig_finished once, for p.
EmitsFor(p) ==
    /\ Len(emitted') = Len(emitted) + 1
    /\ SubSeq(emitted', 1, Len(emitted)) = emitted
    /\ emitted'[Len(emitted')].sender = p

\* A result file of the documented format: an XML root whose children carry
\* classname, name and a numeric time, and only the documented child elements.
WellFormed(doc) ==
    /\ doc.xml
    /\ \A i \in 1..Len(doc.root) :
          /\ {"classname", "name", "time"} \subseteq DOMAIN doc.root[i].attrs
          /\ Float(doc.root[i].attrs["time"]).exc = "none"
          /\ \A j \in 1..Len(doc.root[i].children) :
                doc.root[i].children[j].tag
                    \in {"error", "failure", "skipped", "system-out", "system-err"}

C2_StartRejectedWhenNotIdle ==
    [][StartStep /\ ~Idle =>
          /\ raised' = "AlreadyRunningError"
          /\ UNCHANGED << qstate, child, killed, buf, file >>]_vars

\* C3: the results of every sig_finished emission come from a result file
\* written by the process whose completion event caused the emission; when
\* there was no file they are empty.
C3_ResultsFromOwnFile ==
    \A i \in 1..Len(emitted) :
        /\ emitted[i].src \in {0, emitted[i].sender}
        /\ emitted[i].src = 0 => emitted[i].args[1] = << >>

\* C4: the result file is read (finished slot) or removed (start) only
\* when no test process is alive.
C4_NoFileAccessWhileChildLive ==
    [][(\/ \E p \in Procs : FinishedStep(p)
        \/ StartStep /\ raised' # "ValueError")
       => \A q \in Procs : ~Live(q)]_vars

\* C5: when the completion event finds a result file that is malformed,
\* sig_finished is still emitted for the process.
C5_MalformedStillNotified ==
    [][\A p \in Procs :
         FinishedStep(p) /\ file.writer # 0 /\ ~WellFormed(file.doc) => EmitsFor(p)]_vars

\* C6: when the completion event finds no result file, load_data of either
\* runner class returns the empty list and sig_finished is emitted once for
\* the process, with the empty list and the output text the slot read from
\* self.process (the output of the exiting process while self.process is
\* still its QProcess).
C6_MissingFileEmptyResults ==
    [][\A p \in Procs :
         FinishedStep(p) /\ file.writer = 0 =>
            /\ TestRunner_load_data(file) = [exc |-> "none", value |-> << >>]
            /\ NoseRunner_load_data(file) = [exc |-> "none", value |-> << >>]
            /\ EmitsFor(p)
            /\ emitted'[Len(emitted')].args[1] = << >>
            /\ emitted'[Len(emitted')].args[2] = ToUnicode(buf[process])
            /\ process = p => emitted'[Len(emitted')].args[2] = ToUnicode(buf[p])
            /\ excepthook' = excepthook]_vars

C6_Witness ==
    \E i \in 1..Len(emitted) :
        /\ emitted[i].src = 0
        /\ emitted[i].args[1] = << >>
        /\ emitted[i].args[2] # << >>
        /\ killed[emitted[i].sender]

\* C7: the completion event of a process that was started, was not killed
\* and was not disturbed by another start(), finding the result file absent
\* or well-formed, emits sig_finished once for the process; no process ever
\* has more than one emission.
C7_ExactlyOneFinished ==
    [][/\ \A p \in Procs :
            FinishedStep(p) /\ ~killed[p] /\ p \notin overlapped
                /\ (file.writer = 0 \/ WellFormed(file.doc))
            => EmitsFor(p)
       /\ \A p \in Procs : Cardinality(EmissionsOf(p)') <= 1]_vars

\* C8: a process stays Running after kill_if_running() until its completion
\* event (only that event, which needs the child to have ended, takes it out
\* of Running and runs the finished slot); start() called when no process is
\* Running and returning normally leaves the new process Running; and the
\* results emitted for a run that shared no time with another start() come
\* from that run's own result file or from none, never from an earlier run's.
C8_SettledThenRestart ==
    /\ [][/\ \A p \in Procs :
               qstate[p] = "Running" /\ qstate'[p] # "Running" =>
                  /\ Exited(p)
                  /\ Len(emitted') + Len(excepthook') = Len(emitted) + Len(excepthook) + 1
          /\ StartStep /\ Idle /\ raised' = "none" =>
                  /\ process' = nprocs'
                  /\ qstate'[process'] = "Running"
                  /\ file' = NoFile]_vars
    /\ [](\A i \in 1..Len(emitted) :
             emitted[i].sender \notin overlapped =>
                 /\ emitted[i].src \in {0, emitted[i].sender}
                 /\ emitted[i].src = 0 => emitted[i].args[1] = << >>)

C8_Witness ==
    /\ overlapped = {}
    /\ Len(emitted) = 2
    /\ killed[emitted[1].sender]
    /\ emitted[1].src = emitted[1].sender
    /\ emitted[1].args[1] # << >>
    /\ emitted[2].src = 0

\* C9: kill_if_running() marks a process killed only if it is self.process
\* and Running; called when self.process is None or not Running, or again on
\* a process already killed, it changes nothing of the runner, the processes,
\* the result file or the emissions, and raises nothing.
C9_KillOnlyWhenRunning ==
    [][/\ \A p \in Procs :
            killed'[p] /\ ~killed[p] => process = p /\ qstate[p] = "Running"
       /\ kill_if_running /\ (~IsRunning \/ killed[process]) =>
            /\ raised' = "none"
            /\ UNCHANGED << runner, process, nprocs, qstate, child, killed, buf,
                            nout, file, emitted, excepthook,
                    environ, procenv >>]_vars

C9_Witness ==
    /\ nprocs = 1
    /\ child[1] = "none"
    /\ ~killed[1]
    /\ raised = "none"

\* C10: start() with an unknown framework raises ValueError and start()
\* whose process is not running after waitForStarted() raises RuntimeError;
\* either way no test process runs for the call and no emission is ever made
\* for it, and a later start() runs a process as usual.
C10_FailedStartAborts ==
    /\ [][\A framework \in Frameworks, pythonpath \in PythonPaths, launched \in BOOLEAN :
            start(framework, pythonpath, launched) =>
               /\ framework \notin {"nose", "py.test"} =>
                     /\ raised' = "ValueError"
                     /\ UNCHANGED << qstate, child, file, emitted, excepthook >>
               /\ framework \in {"nose", "py.test"} /\ ~launched =>
                     /\ raised' = "RuntimeError"
                     /\ UNCHANGED << qstate, child, emitted, excepthook >>
               /\ framework \in {"nose", "py.test"} /\ launched =>
                     /\ raised' = "none"
                     /\ qstate'[nprocs'] = "Running"]_vars
    /\ [](\A p \in Procs :
             child[p] = "none" =>
                 /\ qstate[p] = "NotRunning"
                 /\ EmissionsOf(p) = {}
                 /\ \A j \in 1..Len(excepthook) : excepthook[j].sender # p)

C10_Witness ==
    /\ nprocs = 2
    /\ child[1] = "none"
    /\ Delivered(2)
    /\ EmissionsOf(2) # {}

\* The place of the first "=" of an item.
FirstEquals(item) == CHOOSE i \in 1..Len(item) : item[i] = "=" /\ \A j \in 1..(i - 1) : item[j] # "="

NameOf(item) == SubSeq(item, 1, FirstEquals(item) - 1)

ValueOf(item) == SubSeq(item, FirstEquals(item) + 1, Len(item))

\* The environment the claim gives the child: the variables of the host
\* environment, the search-path variable being the extra entries followed by
\* its previous value, joined by the path separator.
ExpectedEnvironment(env, pythonpath) ==
    LET names == {NameOf(env[i]) : i \in 1..Len(env)}
        host(n) == ValueOf(env[CHOOSE i \in 1..Len(env) : NameOf(env[i]) = n])
    IN [n \in names \cup {PYTHONPATH} |->
           IF n = PYTHONPATH
           THEN JoinWith(pythonpath \o (IF n \in names THEN << host(n) >> ELSE << >>),
                         PathSep)
           ELSE host(n)]

\* C17: a start() with extra search-path entries leaves the host environment
\* as it is and gives the process the host's variables unchanged (values cut
\* at the first "=" only), except the search-path variable, which is the
\* extra entries followed by its previous value.
C17_ChildEnvironment ==
    [][\A framework \in Frameworks, pythonpath \in PythonPaths, launched \in BOOLEAN :
         start(framework, pythonpath, launched)
            /\ pythonpath # NoPythonPath /\ pythonpath # << >>
         => /\ environ' = environ
            /\ procenv'.set
            /\ procenv'.variables = ExpectedEnvironment(environ, pythonpath)]_vars

C17_Witness ==
    /\ procenv.set
    /\ environ = HostItems
    /\ procenv.variables[<< "B" >>] = << "x", "=", "y" >>
    /\ procenv.variables[PYTHONPATH] = << "/", "p", ":", "/", "q", ":", "/", "o" >>
    /\ procenv.variables[<< "A" >>] = << "1" >>
    /\ DOMAIN procenv.variables = {NameOf(HostItems[i]) : i \in 1..4}

\* ------------------------------------------------- notions of the parser claims
\* The completion event of p finds a result file of the documented format.
ParsesWellFormed(p) == FinishedStep(p) /\ file.writer # 0 /\ WellFormed(file.doc)

\* The testcases of the result file.
Cases == file.doc.root

\* The results the step's emission carries.
EmittedResults == emitted'[Len(emitted')].args[1]

OutcomeTags == {"error", "failure", "skipped"}

StreamTags == {"system-out", "system-err"}

\* The positions of the outcome children of a testcase.
OutcomePositions(testcase) ==
    {j \in 1..Len(testcase.children) : testcase.children[j].tag \in OutcomeTags}

\* C11 (as stated): on every well-formed result file the parser of either
\* class returns one record per testcase, the i-th record carrying the name
\* and the time of the i-th testcase, and the other parser and a second
\* parse of the same file give a sequence of the same length.
C11_OneRecordPerTestcase ==
    [][\A p \in Procs :
         ParsesWellFormed(p) =>
            /\ EmitsFor(p)
            /\ Len(EmittedResults) = Len(Cases)
            /\ \A i \in 1..Len(Cases) :
                  /\ EmittedResults[i].name = TestName(Cases[i])
                  /\ EmittedResults[i].time = Float(Get(Cases[i], "time")).value
            /\ load_data(file) = [exc |-> "none", value |-> EmittedResults]
            /\ TestRunner_load_data(file).exc = "none"
            /\ NoseRunner_load_data(file).exc = "none"
            /\ Len(TestRunner_load_data(file).value) = Len(Cases)
            /\ Len(NoseRunner_load_data(file).value) = Len(Cases)]_vars

\* C12 (as stated): the parser of TestRunner gives every testcase of a
\* well-formed file a record; a testcase without outcome child gets category
\* OK, status "ok", empty message and empty extra_text, and a testcase whose
\* first child is an outcome child gets that child's tag as status and the
\* category the tag maps to.
C12_DialectAOutcome ==
    [][\A p \in Procs :
         ParsesWellFormed(p) /\ runner = "TestRunner" =>
            /\ EmitsFor(p)
            /\ Len(EmittedResults) = Len(Cases)
            /\ \A i \in 1..Len(Cases) :
                  LET testcase == Cases[i]
                      result == EmittedResults[i]
                  IN /\ OutcomePositions(testcase) = {} =>
                            /\ result.category = CategoryOK
                            /\ result.status = "ok"
                            /\ result.message = << >>
                            /\ result.extra_text = << >>
                     /\ 1 \in OutcomePositions(testcase) =>
                            /\ result.status = testcase.children[1].tag
                            /\ result.category =
                                  (IF result.status = "skipped" THEN CategorySKIP
                                   ELSE CategoryFAIL)]_vars

\* The children of a testcase that are stream children (system-out, system-err).
StreamChildren(testcase) ==
    SelectSeq(testcase.children, LAMBDA c : c.tag \in StreamTags)

\* Some stream child of some testcase of the file has no text.
SomeStreamWithoutText ==
    \E i \in 1..Len(Cases) : \E j \in 1..Len(Cases[i].children) :
        Cases[i].children[j].tag \in StreamTags /\ Cases[i].children[j].text = None

\* The heading line of a stream child and its text without trailing newlines.
HeadedBlock(c) ==
    << "-", "-", "-", "-", "-", " " >>
        \o (IF c.tag = "system-out" THEN CapturedStdout ELSE CapturedStderr)
        \o << " ", "-", "-", "-", "-", "-", "\n" >>
        \o (IF c.text = None THEN << >> ELSE RStripNewlines(c.text))

\* The block a child with text contributes: its text for an outcome child,
\* the headed block for a stream child.
BlockOf(c) == IF c.tag \in OutcomeTags THEN c.text ELSE HeadedBlock(c)

\* The blocks of the children, one after the other, each after a blank line.
BlocksJoined(children) ==
    LET contributing == SelectSeq(children,
                                  LAMBDA c : c.tag \in StreamTags \/ Truthy(c.text))
        from[k \in 0..Len(contributing)] ==
            IF k = 0 THEN << >>
            ELSE IF k = 1 THEN BlockOf(contributing[1])
            ELSE from[k - 1] \o << "\n", "\n" >> \o BlockOf(contributing[k])
    IN from[Len(contributing)]

\* C13 (as stated): in the results of NoseRunner, a testcase with one outcome
\* child that has text and stream children that all have text, in any order,
\* has as extra_text the outcome child's text first and then the blocks of
\* the stream children in their order.
C13_OutcomeTextFirst ==
    [][\A p \in Procs :
         ParsesWellFormed(p) /\ runner = "NoseRunner" /\ ~SomeStreamWithoutText =>
            /\ EmitsFor(p)
            /\ \A i \in 1..Len(Cases) :
                  \A j \in OutcomePositions(Cases[i]) :
                     OutcomePositions(Cases[i]) = {j} /\ Truthy(Cases[i].children[j].text)
                     => EmittedResults[i].extra_text =
                           BlocksJoined(<< Cases[i].children[j] >>
                                        \o StreamChildren(Cases[i]))]_vars

\* C13 (amended): in the results of NoseRunner the extra_text of every
\* testcase is the blocks of its children in document order, a stream block
\* before the outcome child's text when the stream child comes first; when a
\* stream child of the file has no text the parser raises AttributeError and
\* nothing is emitted.
C13_BlocksInDocumentOrder ==
    [][\A p \in Procs :
         ParsesWellFormed(p) /\ runner = "NoseRunner" =>
            IF SomeStreamWithoutText
            THEN /\ emitted' = emitted
                 /\ excepthook' = Append(excepthook,
                                         [sender |-> p, exc |-> "AttributeError"])
            ELSE /\ EmitsFor(p)
                 /\ Len(EmittedResults) = Len(Cases)
                 /\ \A i \in 1..Len(Cases) :
                       EmittedResults[i].extra_text = BlocksJoined(Cases[i].children)]_vars

\* A NoseRunner reported a testcase whose system-out child precedes its
\* failure child: the stream block is first, the failure's text second.
C13_Witness ==
    /\ runner = "NoseRunner"
    /\ file.writer # 0
    /\ file.doc = Xml(<< TestCase(CaseAttrs(<< "1" >>), << SystemOut, Failure >>) >>)
    /\ Len(emitted) = 1
    /\ emitted[1].args[1][1].extra_text =
          StreamBlock(CapturedStdout, << "h" >>) \o << "\n", "\n", "b" >>

\* The category the claims give a testcase by its outcome children.
CategoryByOutcome(testcase) ==
    LET tags == {testcase.children[j].tag : j \in OutcomePositions(testcase)}
    IN IF "skipped" \in tags THEN CategorySKIP
       ELSE IF tags # {} THEN CategoryFAIL
       ELSE CategoryOK

\* C14 (as stated): NoseRunner returns a record for every testcase of a
\* well-formed file; each stream child, with or without text, contributes
\* one block, its heading line followed by its text without trailing
\* newlines; the category is SKIP with a skipped child, FAIL with an error or
\* failure child, and OK with status "ok" without outcome child.
C14_StreamBlocksAndCategory ==
    [][\A p \in Procs :
         ParsesWellFormed(p) /\ runner = "NoseRunner" =>
            /\ EmitsFor(p)
            /\ Len(EmittedResults) = Len(Cases)
            /\ \A i \in 1..Len(Cases) :
                  /\ Cardinality(OutcomePositions(Cases[i])) <= 1 =>
                        /\ EmittedResults[i].extra_text = BlocksJoined(Cases[i].children)
                        /\ EmittedResults[i].category = CategoryByOutcome(Cases[i])
                  /\ OutcomePositions(Cases[i]) = {} => EmittedResults[i].status = "ok"]_vars

\* An attribute of an element is present: there and not empty.
Present(element, key) == key \in DOMAIN element.attrs /\ element.attrs[key] # << >>

\* The message the claims give an outcome child.
MessageOf(outcome) ==
    IF Present(outcome, "type") /\ Present(outcome, "message")
    THEN outcome.attrs["type"] \o << ":", " " >> \o outcome.attrs["message"]
    ELSE IF Present(outcome, "type") THEN outcome.attrs["type"]
    ELSE IF Present(outcome, "message") THEN outcome.attrs["message"]
    ELSE << >>

\* C15: whenever the parser of either class returns records, the record of a
\* testcase with one outcome child has as message "<type>: <message>" when
\* the child has a type and a message, the type alone when it has only a
\* type (the message absent or empty), the message alone when it has only a
\* message, and the empty string when it has neither; so both classes give
\* the same message for the same attributes, and both parsers give a record
\* to a testcase whose only child is an outcome child.
C15_MessageFormat ==
    [][\A p \in Procs :
         ParsesWellFormed(p) =>
            /\ (\A i \in 1..Len(Cases) :
                   Len(Cases[i].children) = 1 /\ OutcomePositions(Cases[i]) = {1})
               => EmitsFor(p)
            /\ EmitsFor(p) =>
                  \A i \in 1..Len(Cases) : \A j \in OutcomePositions(Cases[i]) :
                     OutcomePositions(Cases[i]) = {j}
                     => /\ EmittedResults[i].message = MessageOf(Cases[i].children[j])
                        /\ MessageA(Cases[i].children[j]) = MessageB(Cases[i].children[j])]_vars

\* Both classes reported an error child with a type and an empty message
\* attribute as the bare type.
C15_Witness ==
    /\ file.writer # 0
    /\ file.doc = Xml(<< TestCase(CaseAttrs(<< "1" >>),
                         << Element("error", [type |-> << "E" >>, message |-> << >>],
                                    None) >>) >>)
    /\ Len(emitted) = 1
    /\ emitted[1].args[1][1].message = << "E" >>

\* The time attribute of a testcase is there and is a decimal number, with
\* or without sign.
ParseableTime(testcase) ==
    /\ "time" \in DOMAIN testcase.attrs
    /\ LET t == testcase.attrs["time"]
       IN /\ t # << >>
          /\ IsUnsignedLiteral(IF t[1] \in {"-", "+"} THEN Tail(t) ELSE t)

\* The number a parseable time attribute denotes, in units of 1/FloatScale.
TimeOf(testcase) ==
    LET t == testcase.attrs["time"]
    IN IF t[1] = "-" THEN 0 - UnsignedValue(Tail(t))
       ELSE IF t[1] = "+" THEN UnsignedValue(Tail(t))
       ELSE UnsignedValue(t)

\* C16: when the first testcase of a result file has a time attribute that
\* is no number, or none, the parser of either class raises (ValueError, or
\* TypeError for a missing attribute) and no results are emitted, so no
\* record carries a time put in its place; and every emitted record carries
\* the number its testcase's time attribute denotes.
C16_TimeParsedOrRaised ==
    [][\A p \in Procs :
         FinishedStep(p) /\ file.writer # 0 /\ file.doc.xml =>
            /\ (\E i \in 1..Len(Cases) : ~ParseableTime(Cases[i])) => emitted' = emitted
            /\ Len(Cases) > 0 /\ ~ParseableTime(Cases[1]) =>
                  excepthook' = Append(excepthook,
                      [sender |-> p,
                       exc |-> IF "time" \in DOMAIN Cases[1].attrs
                               THEN "ValueError" ELSE "TypeError"])
            /\ EmitsFor(p) =>
                  \A i \in 1..Len(Cases) : EmittedResults[i].time = TimeOf(Cases[i])]_vars

\* A time of "a" ended in ValueError without emission, in either class.
C16_Witness ==
    /\ file.writer # 0
    /\ file.doc = DocBadTime
    /\ emitted = << >>
    /\ excepthook = << [sender |-> 1, exc |-> "ValueError"] >>

\* C18 (as stated): the output text a sig_finished emission carries is the
\* output accumulated by the process whose completion event caused it, also
\* when start() was called again while that process was running.
C18_OutputOfExitingChild ==
    [][\A p \in Procs :
         FinishedStep(p) /\ EmitsFor(p)
         => emitted'[Len(emitted')].args[2] = ToUnicode(buf[p])]_vars

\* C19 (as stated): at most one test process started by the runner is alive
\* at a time, and a process that is alive is the runner's self.process, the
\* one kill_if_running() reaches.
C19_AtMostOneRunningChild ==
    /\ Cardinality({p \in Procs : Live(p)}) <= 1
    /\ \A p \in Procs : Live(p) => p = process

\* Every testcase of the file has no child, or one child that is an outcome
\* child.
OutcomeOnly(doc) ==
    /\ doc.xml
    /\ \A i \in 1..Len(doc.root) :
          \/ doc.root[i].children = << >>
          \/ /\ Len(doc.root[i].children) = 1
             /\ doc.root[i].children[1].tag \in OutcomeTags

\* What the completion event of p made of the file: the emitted results, or
\* the exception that left the slot.
Outcome(p) ==
    IF EmitsFor(p) THEN [exc |-> "none", value |-> EmittedResults]
    ELSE IF emitted' = emitted /\ Len(excepthook') = Len(excepthook) + 1
    THEN [exc |-> excepthook'[Len(excepthook')].exc, value |-> << >>]
    ELSE [exc |-> "unknown", value |-> << >>]

\* C20: on a result file whose testcases have no child or one outcome child,
\* TestRunner.load_data and NoseRunner.load_data give the same result (equal
\* sequences of records, or the same exception for a time that is no
\* number), and that result is what the finished slot of either class makes
\* of the file.
C20_ParsersAgree ==
    [][\A p \in Procs :
         FinishedStep(p) /\ file.writer # 0 /\ OutcomeOnly(file.doc) =>
            /\ Outcome(p) = TestRunner_load_data(file)
            /\ Outcome(p) = NoseRunner_load_data(file)
            /\ WellFormed(file.doc) => EmitsFor(p) /\ Len(EmittedResults) = Len(Cases)]_vars

\* A runner of either class reported two testcases, one without child and
\* one with a failure child with text, with the records the other class gives.
C20_Witness ==
    /\ file.writer # 0
    /\ Len(file.doc.root) = 2
    /\ file.doc.root[1].children = << >>
    /\ file.doc.root[2].children = << Failure >>
    /\ Len(emitted) = 1
    /\ emitted[1].args[1] = TestRunner_load_data(file).value
    /\ emitted[1].args[1] = NoseRunner_load_data(file).value
    /\ emitted[1].args[1][2].extra_text = << "b" >>
    /\ emitted[1].args[1][2].category = CategoryFAIL
====
